---------------------------- MODULE Spec2Model ----------------------------
(***************************************************************************)
(* A model of pscanner (src/pscanner/__init__.py): the click command       *)
(* port_scanner, the port string parser parse_ports, the batch launcher    *)
(* start_threads and the probe check_port.                                 *)
(*                                                                         *)
(* A Python str is modelled as a sequence of one-character strings, a      *)
(* Python set of int as a set of integers, a sorted list as a strictly     *)
(* ascending sequence.  Thread objects are the elements of the sequence    *)
(* thr, in creation order.                                                 *)
(***************************************************************************)
EXTENDS Integers, Sequences, FiniteSets, TLC

VARIABLES
    pc,              \* position of the main thread (a source line, or an end state)
    target,          \* the argument target: the name given, then the address of line 138
    max_threads,     \* --max-threads
    default,         \* --default
    include,         \* --include (the empty string stands for None as well: `include or ""`)
    exclude,         \* --exclude
    included_ports,  \* parse_ports(include or "")
    excluded_ports,  \* parse_ports(exclude or "")
    total_ports,     \* line 157
    used_ports,      \* line 158
    idx,             \* number of elements of used_ports the for loop of line 161 has taken
    threads,         \* the list `threads` of port_scanner (thread ids)
    batch,           \* the list start_threads was called with
    k,               \* position of start_threads in its current loop
    ret,             \* the call site start_threads returns to
    thr,             \* every Thread object created so far
    calls,           \* number of calls of start_threads so far
    output,          \* the lines echoed so far (as a set)
    exit_status,     \* how the process ended ("" while it runs)
    interrupted,     \* a KeyboardInterrupt has reached the main thread
    caught_in_flight \* the threads that were in flight when it did

vars == <<pc, max_threads, default, include, exclude, included_ports,
          excluded_ports, total_ports, used_ports, idx, threads, batch, k,
          ret, thr, calls, output, exit_status, target, interrupted,
          caught_in_flight>>

-----------------------------------------------------------------------------
(* Python primitives *)

Digits == {"0", "1", "2", "3", "4", "5", "6", "7", "8", "9"}

\* int(c) for a one-digit string
DigitVal(c) ==
    CASE c = "0" -> 0 [] c = "1" -> 1 [] c = "2" -> 2 [] c = "3" -> 3
      [] c = "4" -> 4 [] c = "5" -> 5 [] c = "6" -> 6 [] c = "7" -> 7
      [] c = "8" -> 8 [] c = "9" -> 9

\* str.isnumeric(): non-empty and every character numeric
isnumeric(s) == Len(s) > 0 /\ \A i \in 1..Len(s) : s[i] \in Digits

\* int(s) for a string of decimal digits
RECURSIVE int(_)
int(s) ==
    IF Len(s) = 0 THEN 0
    ELSE 10 * int(SubSeq(s, 1, Len(s) - 1)) + DigitVal(s[Len(s)])

\* range(a, b)
range(a, b) == a .. (b - 1)

\* the list in descending order
sorted_Descending(S) ==
    [i \in 1..Cardinality(S) |-> CHOOSE x \in S : Cardinality({y \in S : y > x}) = i - 1]

\* sorted(S) for a set of integers: the ascending list of its elements;
\* the element at position i is the one with i - 1 smaller elements
sorted(S) ==
    [i \in 1..Cardinality(S) |-> CHOOSE x \in S : Cardinality({y \in S : y < x}) = i - 1]

-----------------------------------------------------------------------------
(* parse_ports *)

\* list(port_list)[-1]: the last element in the set's iteration order.  The
\* language leaves the iteration order of a set unspecified, so every
\* element of the set is a possible value.
list_last(port_list) == port_list

ParserStart == [port_list |-> {}, port |-> <<>>, next_ranged |-> FALSE, raised |-> FALSE]

ParserRaise(st) == [st EXCEPT !.raised = TRUE]

\* lines 201-202 and 216-217: the range that closes a dash
AddRange(st) ==
    {[st EXCEPT !.port_list = @ \cup range(last + 1, int(st.port) + 1)] :
        last \in list_last(st.port_list)}

\* one iteration of the loop of line 195; the set of possible next states
ParseChar(st, char) ==
    IF st.raised THEN {st}
    ELSE IF char \in Digits THEN
        {[st EXCEPT !.port = Append(@, char)]}
    ELSE IF char = "," THEN
        IF ~isnumeric(st.port) THEN {ParserRaise(st)}
        ELSE IF st.next_ranged THEN
            {[s EXCEPT !.next_ranged = FALSE, !.port = <<>>] : s \in AddRange(st)}
        ELSE {[st EXCEPT !.port_list = @ \cup {int(st.port)}, !.port = <<>>]}
    ELSE IF char = "-" THEN
        IF ~isnumeric(st.port) THEN {ParserRaise([st EXCEPT !.next_ranged = TRUE])}
        ELSE {[st EXCEPT !.next_ranged = TRUE,
                         !.port_list = @ \cup {int(st.port)},
                         !.port = <<>>]}
    ELSE {st}

\* the loop of lines 195-212 from character i on
RECURSIVE ParseLoop(_, _, _)
ParseLoop(ports, i, sts) ==
    IF i > Len(ports) THEN sts
    ELSE ParseLoop(ports, i + 1, UNION {ParseChar(st, ports[i]) : st \in sts})

\* lines 213-220
ParseEnd(st) ==
    IF st.raised THEN {st}
    ELSE IF Len(st.port) > 0 THEN
        IF ~isnumeric(st.port) THEN {ParserRaise(st)}
        ELSE IF st.next_ranged THEN AddRange(st)
        ELSE {[st EXCEPT !.port_list = @ \cup {int(st.port)}]}
    ELSE {st}

\* parse_ports(ports): the possible outcomes, each a raised AssertionError
\* or a returned set
parse_ports(ports) ==
    {[raised |-> st.raised, value |-> IF st.raised THEN {} ELSE st.port_list] :
        st \in UNION {ParseEnd(s) : s \in ParseLoop(ports, 1, {ParserStart})}}

-----------------------------------------------------------------------------
(* port_scanner: resolution of the port set *)

DEFAULT_PORTS ==
    {21, 22, 23, 25, 53, 80, 110, 111, 135, 139, 143, 443, 445, 993, 995,
     1433, 1434, 1723, 3306, 3389, 5900, 8080, 8443}

MAX_PORT == 65535

Min(S) == CHOOSE x \in S : \A y \in S : x <= y
Max(S) == CHOOSE x \in S : \A y \in S : y <= x

\* a lower test that lets port 0 through
BelowRange_Strict(p) == p < 0

\* the first operand of the condition of line 147: ports the lower test rejects
BelowRange(p) == p <= 0

\* the second operand: ports the upper test rejects
AboveRange(p) == MAX_PORT < p

\* lines 145-147: sorted_x[0] and sorted_x[-1] of an empty list raise
\* IndexError; `or` evaluates its operands left to right and stops at the
\* first true one
RangeCheck(inc, exc) ==
    IF inc = {} THEN "IndexError"
    ELSE IF BelowRange(Min(inc)) \/ AboveRange(Max(inc)) THEN "reject"
    ELSE IF exc = {} THEN "IndexError"
    ELSE IF BelowRange(Min(exc)) \/ AboveRange(Max(exc)) THEN "reject"
    ELSE "accept"

\* line 157
TotalPorts(dflt, inc) == sorted(IF dflt THEN DEFAULT_PORTS \cup inc ELSE inc)

\* line 158 without its filter
UsedPorts_NoExclude(total, exc) == total

\* line 158
UsedPorts(total, exc) == SelectSeq(total, LAMBDA p : p \notin exc)

\* line 163
ShouldBatch(mt, total) == mt # 0 /\ Len(total) > mt

\* the batch is cut one thread too late
BatchFull_OffByOne(ths, mt) == Len(ths) = mt + 1

\* line 164
BatchFull(ths, mt) == Len(ths) = mt

-----------------------------------------------------------------------------
(* check_port: what the target answers *)

\* an echoed line: its text and the number it carries (0 when it carries none)
Line(text, n) == [text |-> text, n |-> n]

\* ports on which connect_ex returns 0
OpenPorts == {10, 22, 80, 65535}

\* ports on which connect_ex returns 11 after the timeout
TimedOutPorts == {11, 23, 443}

\* ports on which the probe raises after it has created its socket
FaultyPorts == {12, 25}

\* line 183: the value of s.connect_ex((target, port)); 111 is ECONNREFUSED
connect_ex(port) ==
    IF port \in OpenPorts THEN 0
    ELSE IF port \in TimedOutPorts THEN 11
    ELSE 111

\* lines 184-187: the lines check_port echoes
ProbeLines(port) ==
    IF connect_ex(port) = 0 THEN {Line("Port is open.", port)}
    ELSE IF connect_ex(port) = 11 THEN {Line("Port timed out.", port)}
    ELSE {}

\* Thread(target=check_port, args=(target, p, timeout)), line 162
NewThread(p) ==
    [port |-> p, st |-> "new", sock |-> "none", raised |-> FALSE,
     starts |-> 0, call |-> 0]

\* threads that have been started and have not terminated
Alive(t) == t.st \in {"started", "connected"}

\* a join that does not wait
Joined_NoWait(t) == TRUE

\* Thread.join() returns once the thread has terminated
Joined(t) == t.st = "done"

-----------------------------------------------------------------------------
(* The invocations explored *)

MaxThreads == 3      \* max_threads ranges over -1 .. MaxThreads
MaxCohort == 4       \* invocations that launch more probes than this at once are left out

IncludeInputs ==
    { <<>>,
      <<"8", "0", ",", "4", "4", "3">>,
      <<"1", "0", "-", "1", "5">>,
      <<"1", "0", "-", "1", "2">>,
      <<"5", ",", "1", "0", "-", "1", "2", ",", "2", "0">>,
      <<"1", "5", "-", "1", "0">>,
      <<"1", "0", "-">>,
      <<"1", " ", "0">>,
      <<",">>,
      <<"0">>,
      <<"0", "-", "2">>,
      <<"6", "5", "5", "3", "5">>,
      <<"6", "5", "5", "3", "6">>,
      <<"7", "0", "0", "0", "0">> }

ExcludeInputs ==
    { <<>>,
      <<"4", "4", "3">>,
      <<"1", "2">>,
      <<"2", "2", "-", "9", "9", "5">>,
      <<"1", "1", "-", "1", "4">>,
      <<"1", "0", "-", "1", "5">>,
      <<"9", "-", "8">>,
      <<"-", "1">>,
      <<"0">>,
      <<"6", "5", "5", "3", "5">>,
      <<"6", "5", "5", "3", "6">> }

\* the largest number of probes the invocation can have in flight at once
Cohort(mt, dflt, inc, exc) ==
    LET total == TotalPorts(dflt, inc)
        used  == UsedPorts(total, exc)
    IN  IF ShouldBatch(mt, total) /\ Len(used) > mt THEN mt ELSE Len(used)

Explored(mt, dflt, inc_str, exc_str) ==
    \A i \in parse_ports(inc_str), e \in parse_ports(exc_str) :
        (~i.raised /\ ~e.raised /\ RangeCheck(i.value, e.value) = "accept")
            => Cohort(mt, dflt, i.value, e.value) <= MaxCohort

Init ==
    /\ pc = "L135"
    /\ max_threads \in -1 .. MaxThreads
    /\ default \in BOOLEAN
    /\ include \in IncludeInputs
    /\ exclude \in ExcludeInputs
    /\ Explored(max_threads, default, include, exclude)
    /\ included_ports = {}
    /\ excluded_ports = {}
    /\ total_ports = <<>>
    /\ used_ports = <<>>
    /\ idx = 0
    /\ threads = <<>>
    /\ batch = <<>>
    /\ k = 0
    /\ ret = ""
    /\ thr = <<>>
    /\ calls = 0
    /\ output = {}
    /\ exit_status = ""
    /\ target = "hostname"
    /\ interrupted = FALSE
    /\ caught_in_flight = {}

config == <<max_threads, default, include, exclude>>

\* the record of a KeyboardInterrupt
signal == <<interrupted, caught_in_flight>>

\* the process ends: sys.exit() raises SystemExit, an uncaught exception
\* leaves its own name
Exit(how) ==
    /\ pc' = "exited"
    /\ exit_status' = how

\* the exit status of the process: sys.exit() is always called without an
\* argument (lines 93, 137, 150, 170), which is status 0; an exception that
\* nothing catches ends the process with status 1
ExitCode(how) == IF how = "SystemExit" THEN 0 ELSE 1

\* SocketHandler.__exit__ without its SystemExit case
ExitLines_InterruptOnly(exc) ==
    IF exc = "None" \/ exc = "SystemExit" THEN {}
    ELSE IF exc = "KeyboardInterrupt" THEN {Line("Exiting program.", 0)}
    ELSE IF exc = "gaierror" THEN {Line("[!] Hostname could not be resolved.", 0)}
    ELSE IF exc = "socket.error" THEN {Line("[!] Could not connect to server.", 0)}
    ELSE {Line("[!] Unknown error:", 0)}

\* SocketHandler.__exit__, lines 74-88: the line it echoes for the exception
\* that left the with block; every branch but the first ends in sys.exit()
ExitLines(exc) ==
    IF exc = "None" THEN {}
    ELSE IF exc \in {"KeyboardInterrupt", "SystemExit"} THEN {Line("Exiting program.", 0)}
    ELSE IF exc = "gaierror" THEN {Line("[!] Hostname could not be resolved.", 0)}
    ELSE IF exc = "socket.error" THEN {Line("[!] Could not connect to server.", 0)}
    ELSE {Line("[!] Unknown error:", 0)}

\* the positions of the main thread inside the with block of line 160
WithBlock == {"L161", "L174", "L176", "L169"}

-----------------------------------------------------------------------------
(* port_scanner, lines 135-159 *)

\* lines 135-137
CheckMaxThreads ==
    /\ pc = "L135"
    /\ IF max_threads < 0
       THEN /\ output' = output \cup {Line("Maximum thread number should be a positive integer or 0", 0)}
            /\ Exit("SystemExit")
       ELSE /\ pc' = "L138"
            /\ UNCHANGED <<output, exit_status>>
    /\ UNCHANGED <<signal, target, config, included_ports, excluded_ports, total_ports,
                   used_ports, idx, threads, batch, k, ret, thr, calls>>

\* lines 138-142: gethostbyname returns an address or raises gaierror,
\* outside the with block of line 160
ResolveHost ==
    /\ pc = "L138"
    /\ \E resolved \in BOOLEAN :
        IF resolved
        THEN /\ pc' = "L143"
             /\ target' = "address"
             /\ output' = output \cup {Line("Scanning target:", 0)}
                              \cup (IF default THEN {Line("Default ports:", 0)} ELSE {})
             /\ UNCHANGED exit_status
        ELSE /\ Exit("gaierror")
             /\ UNCHANGED <<output, target>>
    /\ UNCHANGED <<signal, config, included_ports, excluded_ports, total_ports,
                   used_ports, idx, threads, batch, k, ret, thr, calls>>

\* line 143
ParseInclude ==
    /\ pc = "L143"
    /\ \E r \in parse_ports(include) :
        IF r.raised
        THEN /\ Exit("AssertionError")
             /\ UNCHANGED included_ports
        ELSE /\ pc' = "L144"
             /\ included_ports' = r.value
             /\ UNCHANGED exit_status
    /\ UNCHANGED <<signal, target, config, excluded_ports, total_ports, used_ports, idx,
                   threads, batch, k, ret, thr, calls, output>>

\* line 144
ParseExclude ==
    /\ pc = "L144"
    /\ \E r \in parse_ports(exclude) :
        IF r.raised
        THEN /\ Exit("AssertionError")
             /\ UNCHANGED excluded_ports
        ELSE /\ pc' = "L145"
             /\ excluded_ports' = r.value
             /\ UNCHANGED exit_status
    /\ UNCHANGED <<signal, target, config, included_ports, total_ports, used_ports, idx,
                   threads, batch, k, ret, thr, calls, output>>

\* lines 145-155
Validate ==
    /\ pc = "L145"
    /\ LET verdict == RangeCheck(included_ports, excluded_ports)
       IN  IF verdict = "IndexError"
           THEN /\ Exit("IndexError")
                /\ UNCHANGED output
           ELSE IF verdict = "reject"
           THEN /\ output' = output \cup {Line("Specified ports should be between 0 and 65536.", 0)}
                /\ Exit("SystemExit")
           ELSE /\ pc' = "L157"
                /\ output' = output
                       \cup (IF Len(include) > 0 THEN {Line("Additional ports:", 0)} ELSE {})
                       \cup (IF Len(exclude) > 0 THEN {Line("Skipping ports:", 0)} ELSE {})
                /\ UNCHANGED exit_status
    /\ UNCHANGED <<signal, target, config, included_ports, excluded_ports, total_ports,
                   used_ports, idx, threads, batch, k, ret, thr, calls>>

\* lines 157-160
BuildPorts ==
    /\ pc = "L157"
    /\ LET total == TotalPorts(default, included_ports)
       IN  /\ total_ports' = total
           /\ used_ports' = UsedPorts(total, excluded_ports)
    /\ threads' = <<>>
    /\ idx' = 0
    /\ pc' = "L161"
    /\ UNCHANGED <<signal, target, config, included_ports, excluded_ports, batch, k, ret,
                   thr, calls, output, exit_status>>

-----------------------------------------------------------------------------
(* port_scanner, lines 160-170, and start_threads *)

\* start_threads(ths) is entered; it returns to `site`
CallStartThreads(ths, site) ==
    /\ batch' = ths
    /\ k' = 0
    /\ ret' = site
    /\ calls' = calls + 1
    /\ pc' = "L174"

\* lines 161-167: one iteration of the for loop, up to the call of line 165
\* when the batch is full
ForBody ==
    /\ pc = "L161"
    /\ idx < Len(used_ports)
    /\ thr' = Append(thr, NewThread(used_ports[idx + 1]))
    /\ idx' = idx + 1
    /\ IF ShouldBatch(max_threads, total_ports) /\ BatchFull(threads, max_threads)
       THEN /\ CallStartThreads(threads, "L166")
            /\ UNCHANGED threads
       ELSE /\ threads' = Append(threads, Len(thr) + 1)
            /\ UNCHANGED <<pc, batch, k, ret, calls>>
    /\ UNCHANGED <<signal, target, config, included_ports, excluded_ports, total_ports,
                   used_ports, output, exit_status>>

\* the pending threads are dropped: the loop goes on to line 169
ForEnd_SkipsLastBatch ==
    /\ pc = "L161"
    /\ idx = Len(used_ports)
    /\ pc' = "L169"
    /\ UNCHANGED <<signal, target, config, included_ports, excluded_ports, total_ports,
                   used_ports, idx, threads, batch, k, ret, calls, thr, output,
                   exit_status>>

\* line 168: the loop is exhausted
ForEnd ==
    /\ pc = "L161"
    /\ idx = Len(used_ports)
    /\ CallStartThreads(threads, "L169")
    /\ UNCHANGED <<signal, target, config, included_ports, excluded_ports, total_ports,
                   used_ports, idx, threads, thr, output, exit_status>>

\* t.start() of a thread that has not been started
Started(t) == [t EXCEPT !.st = "started", !.starts = @ + 1, !.call = calls]

\* lines 174-175: one iteration.  Thread.start() raises RuntimeError on a
\* thread that was started before; the with block of line 160 hands it to
\* SocketHandler.__exit__ (lines 83-88), which echoes and exits
StartThread ==
    /\ pc = "L174"
    /\ k < Len(batch)
    /\ IF thr[batch[k + 1]].starts > 0
       THEN /\ output' = output \cup ExitLines("RuntimeError")
            /\ Exit("SystemExit")
            /\ UNCHANGED <<thr, k>>
       ELSE /\ thr' = [thr EXCEPT ![batch[k + 1]] = Started(@)]
            /\ k' = k + 1
            /\ UNCHANGED <<pc, output, exit_status>>
    /\ UNCHANGED <<signal, target, config, included_ports, excluded_ports, total_ports,
                   used_ports, idx, threads, batch, ret, calls>>

\* the loop of line 174 is exhausted
StartLoopEnd ==
    /\ pc = "L174"
    /\ k = Len(batch)
    /\ pc' = "L176"
    /\ k' = 0
    /\ UNCHANGED <<signal, target, config, included_ports, excluded_ports, total_ports,
                   used_ports, idx, threads, batch, ret, thr, calls, output,
                   exit_status>>

\* lines 176-177: one iteration; join blocks until the thread has terminated
JoinThread ==
    /\ pc = "L176"
    /\ k < Len(batch)
    /\ Joined(thr[batch[k + 1]])
    /\ k' = k + 1
    /\ UNCHANGED <<signal, target, pc, config, included_ports, excluded_ports, total_ports,
                   used_ports, idx, threads, batch, ret, thr, calls, output,
                   exit_status>>

\* the two statements in the other order: the new thread is cleared away
ClearAndAppend_Swapped(ths, t) == <<>>

\* lines 166-167: threads.clear(), then threads.append(t)
ClearAndAppend(ths, t) == <<t>>

\* start_threads returns: to lines 166-167 (t is the thread line 162 created
\* last) or to line 169
StartThreadsReturn ==
    /\ pc = "L176"
    /\ k = Len(batch)
    /\ IF ret = "L166"
       THEN /\ threads' = ClearAndAppend(threads, Len(thr))
            /\ pc' = "L161"
       ELSE /\ pc' = "L169"
            /\ UNCHANGED threads
    /\ UNCHANGED <<signal, target, config, included_ports, excluded_ports, total_ports,
                   used_ports, idx, batch, k, ret, thr, calls, output,
                   exit_status>>

\* line 169: the number the summary line carries
SummaryCount == Len(total_ports)

\* lines 169-170, then SocketHandler.__exit__ (lines 74-93): sys.exit()
\* raises SystemExit inside the with block, which __exit__ receives
Finish ==
    /\ pc = "L169"
    /\ output' = output \cup {Line("Finished checking port(s).", SummaryCount)}
                        \cup ExitLines("SystemExit")
    /\ Exit("SystemExit")
    /\ UNCHANGED <<signal, target, config, included_ports, excluded_ports, total_ports,
                   used_ports, idx, threads, batch, k, ret, thr, calls>>

-----------------------------------------------------------------------------
(* check_port, run by thread i *)

\* an exception raised in a probe thread ends the main thread as well
Connect_Propagates(i) ==
    /\ thr[i].st = "started"
    /\ thr' = [thr EXCEPT ![i] =
                 IF @.port \in FaultyPorts
                 THEN [@ EXCEPT !.st = "done", !.sock = "open", !.raised = TRUE]
                 ELSE [@ EXCEPT !.st = "connected", !.sock = "open"]]
    /\ IF thr[i].port \in FaultyPorts /\ pc # "exited"
       THEN Exit("Exception")
       ELSE UNCHANGED <<pc, exit_status>>
    /\ UNCHANGED <<signal, target, config, included_ports, excluded_ports, total_ports,
                   used_ports, idx, threads, batch, k, ret, calls, output>>

\* lines 181-183: the socket is created and connect_ex returns, or raises.
\* An exception ends the thread that raised it (threading reports it on
\* stderr); no other thread sees it.
Connect(i) ==
    /\ thr[i].st = "started"
    /\ thr' = [thr EXCEPT ![i] =
                 IF @.port \in FaultyPorts
                 THEN [@ EXCEPT !.st = "done", !.sock = "open", !.raised = TRUE]
                 ELSE [@ EXCEPT !.st = "connected", !.sock = "open"]]
    /\ UNCHANGED <<signal, target, pc, config, included_ports, excluded_ports, total_ports,
                   used_ports, idx, threads, batch, k, ret, calls, output,
                   exit_status>>

\* lines 184-188
Report(i) ==
    /\ thr[i].st = "connected"
    /\ output' = output \cup ProbeLines(thr[i].port)
    /\ thr' = [thr EXCEPT ![i] = [@ EXCEPT !.st = "done", !.sock = "closed"]]
    /\ UNCHANGED <<signal, target, pc, config, included_ports, excluded_ports, total_ports,
                   used_ports, idx, threads, batch, k, ret, calls, exit_status>>

-----------------------------------------------------------------------------
(* A KeyboardInterrupt reaches the main thread *)

\* Inside the with block SocketHandler.__exit__ receives it (lines 77-78,
\* 90-93): it echoes and calls sys.exit().  The probe threads are not daemon
\* threads and nothing stops them: they run on.  Before the with block
\* nothing of this program catches it.
Interrupt ==
    /\ pc # "exited"
    /\ ~interrupted
    /\ interrupted' = TRUE
    /\ caught_in_flight' = {i \in 1..Len(thr) : Alive(thr[i])}
    /\ IF pc \in WithBlock
       THEN /\ output' = output \cup ExitLines("KeyboardInterrupt")
            /\ Exit("SystemExit")
       ELSE /\ Exit("KeyboardInterrupt")
            /\ UNCHANGED output
    /\ UNCHANGED <<target, config, included_ports, excluded_ports, total_ports,
                   used_ports, idx, threads, batch, k, ret, thr, calls>>

-----------------------------------------------------------------------------

Next ==
    \/ CheckMaxThreads
    \/ ResolveHost
    \/ ParseInclude
    \/ ParseExclude
    \/ Validate
    \/ BuildPorts
    \/ ForBody
    \/ ForEnd
    \/ StartThread
    \/ StartLoopEnd
    \/ JoinThread
    \/ StartThreadsReturn
    \/ Finish
    \/ Interrupt
    \/ \E i \in 1..Len(thr) : Connect(i)
    \/ \E i \in 1..Len(thr) : Report(i)

Spec == Init /\ [][Next]_vars

\* the steps of the main thread
MainStep ==
    \/ CheckMaxThreads
    \/ ResolveHost
    \/ ParseInclude
    \/ ParseExclude
    \/ Validate
    \/ BuildPorts
    \/ ForBody
    \/ ForEnd
    \/ StartThread
    \/ StartLoopEnd
    \/ JoinThread
    \/ StartThreadsReturn
    \/ Finish

\* the steps of the probe threads
ProbeStep == \E i \in 1..Len(thr) : Connect(i) \/ Report(i)

\* The main thread runs on whenever it can, and so does some started probe:
\* a probe has two steps, each bounded (connect_ex by the timeout of line
\* 182), and the threads are scheduled by the operating system.  An
\* interrupt may come or not.
Fairness == WF_vars(MainStep) /\ WF_vars(ProbeStep)

\* the invocations the fair behaviours are explored on
LiveIncludeInputs ==
    { <<>>,
      <<"8", "0", ",", "4", "4", "3">>,
      <<"1", "0", "-", "1", "2">>,
      <<"5", ",", "1", "0", "-", "1", "2", ",", "2", "0">> }

LiveExcludeInputs ==
    { <<>>,
      <<"4", "4", "3">>,
      <<"1", "1", "-", "1", "4">> }

LiveInit ==
    /\ Init
    /\ include \in LiveIncludeInputs
    /\ exclude \in LiveExcludeInputs

FairSpec == LiveInit /\ [][Next]_vars /\ Fairness

-----------------------------------------------------------------------------
(* parse_ports alone, on every string of a small alphabet *)

MaxLen == 5

ParseAlphabet == {"1", "2", "3", ",", "-", " ", "a"}

ParseInputs ==
    UNION {[1..n -> ParseAlphabet] : n \in 0..MaxLen} \cup IncludeInputs

ParseInit ==
    /\ pc = "L143"
    /\ max_threads = 0
    /\ default = FALSE
    /\ include \in ParseInputs
    /\ exclude = <<>>
    /\ included_ports = {}
    /\ excluded_ports = {}
    /\ total_ports = <<>>
    /\ used_ports = <<>>
    /\ idx = 0
    /\ threads = <<>>
    /\ batch = <<>>
    /\ k = 0
    /\ ret = ""
    /\ thr = <<>>
    /\ calls = 0
    /\ output = {}
    /\ exit_status = ""
    /\ target = "hostname"
    /\ interrupted = FALSE
    /\ caught_in_flight = {}

ParseSpec == ParseInit /\ [][ParseInclude]_vars

-----------------------------------------------------------------------------
(* Properties *)

\* the probes in flight: started and not yet terminated
InFlight == {i \in 1..Len(thr) : Alive(thr[i])}

\* the probes that have been started
Probed == {i \in 1..Len(thr) : thr[i].starts > 0}

\* the resolved port set R: default and include ports minus excluded ports
Resolved ==
    (IF default THEN DEFAULT_PORTS \cup included_ports ELSE included_ports)
        \ excluded_ports

\* the scan ran to completion: the summary line was echoed
ScanCompleted == \E n \in 0..Len(total_ports) : Line("Finished checking port(s).", n) \in output

Smaller(a, b) == IF a <= b THEN a ELSE b

\* C1: with a budget b > 0, the number of probes started and not yet
\* terminated never exceeds min(b, |R|)
C1_InFlightWithinBudget ==
    max_threads > 0 =>
        Cardinality(InFlight) <= Smaller(max_threads, Len(used_ports))

\* C1 witness: batching was decided on a pre-exclusion count larger than the
\* budget while |R| is smaller than the budget, and all of R is in flight
C1_Witness ==
    /\ max_threads > 0
    /\ Len(total_ports) > max_threads
    /\ Len(used_ports) < max_threads
    /\ Len(used_ports) >= 2
    /\ Cardinality(InFlight) = Len(used_ports)

\* C2: a scan that ran to completion has started exactly one probe for each
\* port of R, none for any other port, and no thread more than once
C2_ExactlyOneProbePerPort ==
    ScanCompleted =>
        /\ \A p \in Resolved : Cardinality({i \in Probed : thr[i].port = p}) = 1
        /\ \A i \in 1..Len(thr) : thr[i].port \in Resolved /\ thr[i].starts = 1

\* C2 witness: a completed scan that took several batches
C2_Witness ==
    /\ ScanCompleted
    /\ calls >= 3
    /\ Cardinality(Resolved) >= 4
    /\ Cardinality(Resolved) < Len(total_ports)

\* C3: a probe of a later batch is started only when every probe of every
\* earlier batch has terminated, whatever its outcome
C3_BatchBarrier ==
    \A i, j \in Probed : thr[i].call < thr[j].call => thr[i].st = "done"

\* C3 witness: a probe of the second batch is in flight after a probe of the
\* first batch raised and another one timed out
C3_Witness ==
    \E i, j, l \in Probed :
        /\ thr[i].call < thr[l].call
        /\ thr[j].call < thr[l].call
        /\ thr[i].raised
        /\ connect_ex(thr[j].port) = 11 /\ thr[j].st = "done"
        /\ Alive(thr[l])

\* C4: no excluded port is ever probed, and include="80,443",
\* exclude="443", default=false probes exactly port 80
C4_ExcludeWins ==
    /\ \A i \in Probed : thr[i].port \notin excluded_ports
    /\ (/\ ScanCompleted
        /\ include = <<"8", "0", ",", "4", "4", "3">>
        /\ exclude = <<"4", "4", "3">>
        /\ ~default)
           => {thr[i].port : i \in Probed} = {80}

\* C4 witness: a completed scan whose excluded port is both a default port
\* and an included port
C4_Witness ==
    /\ ScanCompleted
    /\ default
    /\ 443 \in excluded_ports \cap included_ports \cap DEFAULT_PORTS
    /\ Cardinality(Probed) > 0

-----------------------------------------------------------------------------
(* The grammar of a port string, as the properties read it *)

\* the tokens of s: the pieces between its commas
RECURSIVE Tokens(_)
Tokens(s) ==
    IF \A i \in 1..Len(s) : s[i] # ","
    THEN <<s>>
    ELSE LET c == CHOOSE i \in 1..Len(s) : s[i] = "," /\ \A j \in 1..(i - 1) : s[j] # ","
         IN  <<SubSeq(s, 1, c - 1)>> \o Tokens(SubSeq(s, c + 1, Len(s)))

\* the positions at which tok splits into two numbers around a dash
RangeSplits(tok) ==
    {d \in 1..Len(tok) :
        /\ tok[d] = "-"
        /\ isnumeric(SubSeq(tok, 1, d - 1))
        /\ isnumeric(SubSeq(tok, d + 1, Len(tok)))}

IsRange(tok) == RangeSplits(tok) # {}

Lo(tok) == int(SubSeq(tok, 1, (CHOOSE d \in RangeSplits(tok) : TRUE) - 1))

Hi(tok) == int(SubSeq(tok, (CHOOSE d \in RangeSplits(tok) : TRUE) + 1, Len(tok)))

\* a non-empty string whose tokens are single numbers and ranges lo-hi, lo <= hi
WellFormed(s) ==
    /\ Len(s) > 0
    /\ \A n \in 1..Len(Tokens(s)) :
        LET tok == Tokens(s)[n]
        IN  isnumeric(tok) \/ (IsRange(tok) /\ Lo(tok) <= Hi(tok))

\* the ports a token denotes
TokenPorts(tok) ==
    IF isnumeric(tok) THEN {int(tok)}
    ELSE IF IsRange(tok) THEN Lo(tok) .. Hi(tok)
    ELSE {}

\* the ports a string denotes
Denotes(s) == UNION {TokenPorts(Tokens(s)[n]) : n \in 1..Len(Tokens(s))}

HasReversedRange(s) ==
    \E n \in 1..Len(Tokens(s)) :
        IsRange(Tokens(s)[n]) /\ Lo(Tokens(s)[n]) > Hi(Tokens(s)[n])

HasTrailingDash(s) == Len(s) > 0 /\ s[Len(s)] = "-"

HasForeignChar(s) == \E i \in 1..Len(s) : s[i] \notin Digits \cup {",", "-"}

\* parse_ports(include) has returned or raised
IncludeParsed == pc # "L143" /\ pc # "L138" /\ pc # "L135" /\ exit_status # "gaierror"
                 /\ ~(pc = "exited" /\ max_threads < 0)

ParseError == exit_status = "AssertionError"

RangeError == Line("Specified ports should be between 0 and 65536.", 0) \in output

-----------------------------------------------------------------------------

\* C5: an empty include or exclude string is the empty set and no error:
\* with the other string valid (or empty too) the scan proceeds and probes
\* (defaults if enabled, union I) minus E; include="10-15", exclude="",
\* default=false probes 10..15
C5_EmptyStringIsNoError ==
    (/\ pc = "exited"
     /\ max_threads >= 0
     /\ exit_status # "gaierror"
     /\ include = <<>> \/ exclude = <<>>
     /\ include = <<>> \/ WellFormed(include)
     /\ exclude = <<>> \/ WellFormed(exclude)
     /\ Denotes(include) \cup Denotes(exclude) \subseteq 1..65535)
        => /\ ScanCompleted
           /\ {thr[i].port : i \in Probed} =
                (IF default THEN DEFAULT_PORTS \cup Denotes(include) ELSE Denotes(include))
                    \ Denotes(exclude)

\* C6: on a well-formed string parse_ports returns exactly the single
\* numbers and the inclusive ranges lo..hi written in it
C6_ParseReturnsDenotation ==
    (IncludeParsed /\ WellFormed(include)) =>
        (~ParseError /\ included_ports = Denotes(include))

\* C7: a reversed range lo-hi, lo > hi, makes parsing fail
C7_ReversedRangeFails ==
    (IncludeParsed /\ HasReversedRange(include)) => ParseError

\* C8: a string that ends with a dash makes parsing fail
C8_TrailingDashFails ==
    (IncludeParsed /\ HasTrailingDash(include)) => ParseError

\* C9: a character that is no digit, comma or dash makes parsing fail
C9_ForeignCharacterFails ==
    (IncludeParsed /\ HasForeignChar(include)) => ParseError

\* line 147 has been evaluated: the main thread is past it and was not
\* interrupted on its way there
RangeChecked == pc # "L145" /\ exit_status # "KeyboardInterrupt"

\* C10 as stated: with I and E non-empty, the range error is raised exactly
\* when some port of I union E lies outside [0, 65535]
C10_RangeIsZeroTo65535 ==
    (included_ports # {} /\ excluded_ports # {} /\ RangeChecked) =>
        (RangeError <=> \E p \in included_ports \cup excluded_ports : p < 0 \/ p > 65535)

\* C10 amended: with I and E non-empty, the range error is raised exactly
\* when some port of I union E lies outside [1, 65535]: port 0 is rejected,
\* port 65535 is accepted
C10_RangeIsOneTo65535 ==
    (included_ports # {} /\ excluded_ports # {} /\ RangeChecked) =>
        (RangeError <=> \E p \in included_ports \cup excluded_ports : p <= 0 \/ p > 65535)

\* C10 witness: port 0, with every other port within range, is rejected
C10_Witness ==
    /\ included_ports # {} /\ excluded_ports # {}
    /\ 0 \in included_ports \cup excluded_ports
    /\ \A p \in included_ports \cup excluded_ports : p <= 65535
    /\ RangeError
    /\ pc = "exited"

-----------------------------------------------------------------------------

\* a non-empty port string that the grammar does not accept
Malformed(s) == Len(s) > 0 /\ ~WellFormed(s)

\* an invalid configuration: a negative max_threads, a malformed port
\* string, or a port outside [0, 65535] in include or exclude
InvalidConfig ==
    \/ max_threads < 0
    \/ Malformed(include)
    \/ Malformed(exclude)
    \/ \E p \in Denotes(include) \cup Denotes(exclude) : p < 0 \/ p > 65535

\* C11: an invocation with an invalid configuration never creates a probe
\* thread (so never starts one nor opens a probe socket), and a negative
\* max_threads is rejected before the host name is resolved
C11_FailFast ==
    InvalidConfig =>
        /\ thr = <<>>
        /\ max_threads < 0 => target = "hostname"

\* the program itself turned the configuration down
ConfigRejected == max_threads < 0 \/ RangeError \/ ParseError

\* C12: a configuration error ends the process with a nonzero exit status,
\* and exit status 0 comes only from a scan that completed (no interrupt
\* being involved)
C12_NonzeroOnConfigError ==
    (pc = "exited" /\ ~interrupted) =>
        /\ ConfigRejected => ExitCode(exit_status) # 0
        /\ ExitCode(exit_status) = 0 => ScanCompleted

\* C13: the summary line carries the number of ports probed, |R| (stated
\* for well-formed port strings)
C13_SummaryCountsProbedPorts ==
    (ScanCompleted /\ WellFormed(include) /\ WellFormed(exclude)) =>
        /\ Line("Finished checking port(s).", Cardinality(Resolved)) \in output
        /\ Cardinality(Resolved) = Cardinality(Probed)

\* probe i has run to the end of check_port and echoed a result line
Reported(i) ==
    thr[i].st = "done" /\ ~thr[i].raised /\ ProbeLines(thr[i].port) # {}

\* C14: a KeyboardInterrupt that reaches the main thread terminates the
\* probes in flight, so that none of them reports a result afterwards: a
\* probe that was in flight at the interrupt never comes to echo its line
C14_InterruptSilencesProbes ==
    interrupted => \A i \in caught_in_flight : ~Reported(i)

\* probe i has terminated without finding its port open: the connection was
\* refused or timed out, or check_port raised
Failed(i) == thr[i].st = "done" /\ thr[i].port \notin OpenPorts

\* the main thread has stopped, and neither at the summary nor by an interrupt
StoppedEarly == pc = "exited" /\ ~interrupted /\ ~ScanCompleted

\* at the summary every probe has terminated, and every probe whose
\* check_port does not raise has run to its own result
SiblingsRanToResult ==
    ScanCompleted =>
        /\ \A p \in Resolved : \E i \in 1..Len(thr) : thr[i].port = p
        /\ \A i \in 1..Len(thr) :
              /\ thr[i].st = "done"
              /\ thr[i].port \notin FaultyPorts =>
                    /\ ~thr[i].raised
                    /\ ProbeLines(thr[i].port) \subseteq output

\* C15: the failure of a probe is contained to that probe: once a probe has
\* failed the main thread does not stop short of the summary (an interrupt
\* aside), the scan goes on to the summary, and by then every port of R has
\* been probed and every probe that does not raise has echoed its own result
C15_ProbeFailureContained ==
    /\ []((\E i \in 1..Len(thr) : Failed(i)) => ~StoppedEarly)
    /\ []SiblingsRanToResult
    /\ (\E i \in 1..Len(thr) : Failed(i)) ~> (ScanCompleted \/ interrupted)

\* a probe raised in a batch that a sibling shared and reported in, a later
\* batch was launched, and the summary was echoed
C15_Witness ==
    /\ ScanCompleted
    /\ ~interrupted
    /\ \E i, j, l \in 1..Len(thr) :
          /\ thr[i].raised
          /\ j # i /\ thr[j].call = thr[i].call /\ Reported(j)
          /\ thr[l].call > thr[i].call /\ thr[l].st = "done"

\* C16: a probe that has terminated has closed its socket, whichever way
\* check_port was left: success, timeout, refusal, or an exception raised
\* between the creation of the socket and its close
C16_TerminatedProbeClosedItsSocket ==
    \A i \in 1..Len(thr) : thr[i].st = "done" => thr[i].sock = "closed"

\* the number of the start_threads call that launches the port at sorted
\* position i (from 1) of R under budget b
BatchOf(i, b) ==
    IF b = 0 \/ b >= Cardinality(Resolved) THEN 1 ELSE ((i - 1) \div b) + 1

\* the sorted positions of R that make up batch n (from 1) under budget b
BatchPositions(n, b) ==
    IF b = 0 \/ b >= Cardinality(Resolved)
    THEN 1 .. Cardinality(Resolved)
    ELSE ((n - 1) * b + 1) .. Smaller(n * b, Cardinality(Resolved))

\* C17: the batches partition R in ascending order: the i-th probe created
\* is the i-th smallest port of R; with b = 0 or b >= |R| every port is
\* launched by the one call of start_threads, otherwise the port at sorted
\* position i is launched by call ((i - 1) div b) + 1, and the batch handed
\* to call n is exactly the positions (n - 1) * b + 1 .. min(n * b, |R|)
C17_BatchPartitionIsSortedSlices ==
    /\ \A i \in 1..Len(thr) :
          /\ thr[i].port \in Resolved
          /\ Cardinality({p \in Resolved : p < thr[i].port}) = i - 1
          /\ thr[i].starts > 0 => thr[i].call = BatchOf(i, max_threads)
    /\ pc \in {"L174", "L176"} =>
          /\ {batch[j] : j \in 1..Len(batch)} = BatchPositions(calls, max_threads)
          /\ \A j \in 1..Len(batch) : batch[j] = batch[1] + j - 1

\* five ports under a budget of two were launched as batches of 2, 2 and 1
C17_Witness ==
    /\ ScanCompleted
    /\ max_threads = 2
    /\ Len(thr) = 5
    /\ \A i \in 1..5 : thr[i].st = "done"
    /\ <<thr[1].call, thr[2].call, thr[3].call, thr[4].call, thr[5].call>> = <<1, 1, 2, 2, 3>>

\* C18: the summary line is echoed only after every probe of every batch
\* has terminated: once it is out, a probe exists for each port of R, and
\* none of them is still in flight or not yet started
C18_SummaryAfterAllProbes ==
    ScanCompleted =>
        /\ {thr[i].port : i \in 1..Len(thr)} = Resolved
        /\ InFlight = {}
        /\ \A i \in 1..Len(thr) : thr[i].starts > 0 /\ thr[i].st = "done"

\* the summary is out after two batches or more, in which one probe found
\* its port open and another one timed out
C18_Witness ==
    /\ ScanCompleted
    /\ calls >= 2
    /\ \E i, j \in 1..Len(thr) :
          /\ thr[i].call < thr[j].call
          /\ connect_ex(thr[i].port) = 0
          /\ connect_ex(thr[j].port) = 11

\* a valid configuration: a budget b >= 0 and port strings that are empty
\* or well-formed, with every port in [1, 65535]
ValidConfig ==
    /\ ~InvalidConfig
    /\ Denotes(include) \cup Denotes(exclude) \subseteq 1..MAX_PORT

\* C19: a scan of a valid configuration ends only at the summary and with
\* exit status 0 (the host name being resolvable and no interrupt coming):
\* the main thread never stops with ports of R not launched
C19_ValidScanEndsAtSummary ==
    (ValidConfig /\ pc = "exited" /\ ~interrupted /\ exit_status # "gaierror") =>
        /\ ScanCompleted
        /\ ExitCode(exit_status) = 0
        /\ {thr[i].port : i \in Probed} = Resolved

\* the lines SocketHandler.__exit__ can echo
InterruptLine == Line("Exiting program.", 0)

ErrorLines == ExitLines("gaierror") \cup ExitLines("socket.error") \cup ExitLines("RuntimeError")

\* C20 as stated: a scan that ran to the summary without an interrupt ends
\* without any line of SocketHandler.__exit__
C20_CompletedScanIsSilent ==
    (ScanCompleted /\ ~interrupted) =>
        /\ InterruptLine \notin output
        /\ ErrorLines \cap output = {}

\* C20: "Exiting program." is echoed exactly when an interrupt reached the
\* main thread inside the with block or the scan has run to the summary
\* (the sys.exit() after the summary is handled like an interrupt); its
\* error lines are never echoed, as no other exception reaches the with
\* block: the host name is resolved before it, and an exception of a probe
\* stays in the probe's thread
C20_ExitLineOnInterruptOrCompletion ==
    /\ InterruptLine \in output <=>
          \/ ScanCompleted
          \/ interrupted /\ exit_status = "SystemExit"
    /\ ErrorLines \cap output = {}

\* an uninterrupted scan has run all its probes, echoed the summary and
\* then "Exiting program."
C20_Witness ==
    /\ ScanCompleted
    /\ ~interrupted
    /\ thr # <<>>
    /\ \A i \in 1..Len(thr) : thr[i].st = "done" /\ ~thr[i].raised
    /\ InterruptLine \in output

=============================================================================
